---- MODULE Spec2Model ----
(***************************************************************************)
(* A model of app.py: the BlogSummarizer class (URL validation, the two    *)
(* extraction tiers, the orchestrator extract_content, summarize_content)  *)
(* and the request handling of main().                                     *)
(*                                                                         *)
(* A Python str is a sequence of one-character strings; None is the        *)
(* distinguished value None below, which is no str.  Messages built by     *)
(* f-strings (the error texts) are sequences of their parts.               *)
(***************************************************************************)
EXTENDS Integers, Sequences, FiniteSets, TLC

VARIABLES
    env,                \* the environment main() reads: [groq_api_key, firecrawl_api_key]
    firecrawl_client,   \* self.firecrawl_client: "unset" before __init__, then "client" or "none"
    pc,                 \* where main() / extract_content stands, or the function under study
    url,                \* the text of the URL input
    requests,           \* number of runs of main() so far
    method_used,        \* extract_content's local method_used
    primary,            \* what extract_with_firecrawl returned in this run (NotCalled before)
    fallback,           \* what extract_with_fallback returned in this run (NotCalled before)
    extracted,          \* what extract_content returned: <<title, content, error, method_used>>
    summarized,         \* what summarize_content returned: [prompt, summary, error]
    outcome,            \* how this run of main() ended
    trace,              \* the calls and returns of this run, in order
    arg,                \* the input of the function under study
    res                 \* its result

vars == <<env, firecrawl_client, pc, url, requests, method_used, primary, fallback,
          extracted, summarized, outcome, trace, arg, res>>

----------------------------------------------------------------------------
(* Python values *)

None == <<"<None>">>
NotCalled == <<"<not called>">>

\* Python's truth value of an Optional[str]
Truthy(x) == x # None /\ x # <<>>

\* n copies of the character c
Rep(c, n) == [i \in 1..n |-> c]

Min(S) == CHOOSE x \in S : \A y \in S : x <= y
Max(S) == CHOOSE x \in S : \A y \in S : x >= y

\* the characters \s matches and str.strip() strips, among those in use here
Whitespace == {" ", "\n", "\t"}

IsSpace(c) == c \in Whitespace

\* str.strip()
Strip(s) ==
    LET keep == {i \in 1..Len(s) : ~IsSpace(s[i])}
    IN  IF keep = {} THEN <<>> ELSE SubSeq(s, Min(keep), Max(keep))

\* the indices of s, in order
Indices(s) == [i \in 1..Len(s) |-> i]

\* re.sub(r'\s+', ' ', s): every maximal run of whitespace becomes one space
CollapseWhitespace(s) ==
    LET Keep(i) == ~IsSpace(s[i]) \/ i = 1 \/ ~IsSpace(s[i - 1])
        kept    == SelectSeq(Indices(s), Keep)
    IN  [k \in 1..Len(kept) |-> IF IsSpace(s[kept[k]]) THEN " " ELSE s[kept[k]]]

----------------------------------------------------------------------------
(* summarize_content *)

max_content_length == 15000

Ellipsis == <<".", ".", ".">>

\* the mutant: the cap is applied from max_content_length on, not above it
TruncateFromCap(content) ==
    IF Len(content) >= max_content_length
    THEN SubSeq(content, 1, max_content_length) \o Ellipsis
    ELSE content

\* content[:max_content_length] + "..." when len(content) > max_content_length
Truncate(content) ==
    IF Len(content) > max_content_length
    THEN SubSeq(content, 1, max_content_length) \o Ellipsis
    ELSE content

SummaryLengths == {"short", "medium", "long"}

length_instructions ==
    [short  |-> "Provide a concise 2-3 sentence summary highlighting only the most important points.",
     medium |-> "Provide a comprehensive summary in 1-2 paragraphs (4-6 sentences) covering the main points and key insights.",
     long   |-> "Provide a detailed summary in 2-3 paragraphs (6-10 sentences) covering main points, supporting details, and key takeaways."]

\* length_instructions.get(summary_length, length_instructions["medium"])
LengthInstruction(summary_length) ==
    IF summary_length \in SummaryLengths
    THEN length_instructions[summary_length]
    ELSE length_instructions["medium"]

\* the f-string prompt, as its three interpolated fields
Prompt(title, content, summary_length) ==
    [instruction |-> LengthInstruction(summary_length),
     title       |-> IF Truthy(title) THEN title ELSE <<"Article">>,
     content     |-> Truncate(content)]

\* what the Groq call does: a completion, or an exception with a message
GroqOutcomes ==
    { [raised |-> FALSE, text |-> <<" ", "S", "u", "m", " ">>],
      [raised |-> FALSE, text |-> <<>>],
      [raised |-> TRUE,  text |-> <<"rate limit">>] }

\* summarize_content(title, content, summary_length) with the Groq call's outcome g
summarize_content(title, content, summary_length, g) ==
    LET prompt == Prompt(title, content, summary_length)
    IN  IF g.raised
        THEN [prompt |-> prompt, summary |-> None,
              error |-> <<"Error generating summary: ">> \o g.text]
        ELSE [prompt |-> prompt, summary |-> Strip(g.text), error |-> None]

----------------------------------------------------------------------------
(* extract_with_firecrawl *)

\* re.sub(r'\n\s*\n\s*\n', '\n\n', s): in a whitespace run holding three or more
\* newlines, what lies from its first newline to its last becomes two newlines
CollapseBlankLines(s) ==
    LET InRun(i, j) == \A k \in i..j : IsSpace(s[k])
        NewlinesOfRun(i) == {j \in 1..Len(s) : /\ s[j] = "\n"
                                               /\ IF j <= i THEN InRun(j, i) ELSE InRun(i, j)}
        Keep(i) == \/ ~IsSpace(s[i])
                   \/ LET nl == NewlinesOfRun(i)
                      IN  \/ Cardinality(nl) < 3
                          \/ i <= Min(nl)
                          \/ i >= Max(nl)
        kept == SelectSeq(Indices(s), Keep)
    IN  [k \in 1..Len(kept) |-> s[kept[k]]]

\* dict.get(key, default) on a dict modelled as a record whose absent keys are not in its domain
Get(d, key, default) == IF key \in DOMAIN d THEN d[key] ELSE default

\* a or b
Or(a, b) == IF Truthy(a) THEN a ELSE b

EmptyDict == [x \in {} |-> None]

\* extract_with_firecrawl(url) when scrape_url behaves as r: it raises, or returns a dict
extract_with_firecrawl(r) ==
    IF r.raised
    THEN <<None, None, <<"Firecrawl error: ">> \o r.msg>>
    ELSE
      LET scrape_result == r.dict
      IN  IF ~Get(scrape_result, "success", FALSE)
          THEN <<None, None, <<"Firecrawl failed to scrape the URL: ">>
                               \o Get(scrape_result, "error", <<"Unknown error">>)>>
          ELSE
            LET data    == Get(scrape_result, "data", EmptyDict)
                title   == Or(Get(data, "title", None),
                              Get(Get(data, "metadata", EmptyDict), "title", None))
                content == Or(Get(data, "markdown", None), Get(data, "content", None))
            IN  IF ~Truthy(content)
                THEN <<None, None, <<"No content could be extracted from the page">>>>
                ELSE <<title, Strip(CollapseWhitespace(CollapseBlankLines(content))), None>>

----------------------------------------------------------------------------
(* extract_with_fallback *)

(* The parsed page.  A document is its elements in document order and whether  *)
(* it has a body element.  An element has a tag, a set of classes, attributes, *)
(* its text nodes in order, and the element that encloses it: "head", "body",  *)
(* "root" (outside both), or an enclosing tag such as "header".                *)

UpperCase == <<"A", "B", "C", "D", "E", "F", "G", "H", "I", "J", "K", "L", "M", "N", "O", "P", "Q", "R", "S", "T", "U", "V", "W", "X", "Y", "Z">>
LowerCase == <<"a", "b", "c", "d", "e", "f", "g", "h", "i", "j", "k", "l", "m", "n", "o", "p", "q", "r", "s", "t", "u", "v", "w", "x", "y", "z">>

\* the lower-case form of a character, as re.IGNORECASE compares
Lower(c) == IF \E i \in 1..Len(UpperCase) : UpperCase[i] = c
            THEN LowerCase[CHOOSE i \in 1..Len(UpperCase) : UpperCase[i] = c]
            ELSE c

\* the tags soup(...) finds and decompose() removes, with what they enclose
RemovedTags == {"script", "style", "nav", "footer", "header", "aside", "iframe", "noscript"}

Decompose(doc) ==
    LET Kept(e) == e.tag \notin RemovedTags /\ e.parent \notin RemovedTags
    IN  [doc EXCEPT !.elems = SelectSeq(doc.elems, Kept)]

Tag(t)     == [kind |-> "tag", name |-> t, value |-> ""]
Class(c)   == [kind |-> "class", name |-> c, value |-> ""]
Attr(a, v) == [kind |-> "attr", name |-> a, value |-> v]

title_selectors ==
    << Tag("title"), Tag("h1"), Class("post-title"), Class("entry-title"),
       Class("article-title"), Attr("property", "og:title"), Class("headline"),
       Class("page-title") >>

content_selectors ==
    << Tag("article"), Class("post-content"), Class("entry-content"),
       Class("article-content"), Class("content"), Tag("main"), Class("post"),
       Class("blog-post"), Attr("role", "main"), Class("story-body"),
       Class("article-body"), Class("post-body") >>

Matches(e, sel) ==
    CASE sel.kind = "tag"   -> e.tag = sel.name
      [] sel.kind = "class" -> sel.name \in e.classes
      [] sel.kind = "attr"  -> sel.name \in DOMAIN e.attrs /\ e.attrs[sel.name] = sel.value

\* soup.select_one(selector): the index of the first matching element, 0 for None
select_one(doc, sel) ==
    LET hits == {i \in 1..Len(doc.elems) : Matches(doc.elems[i], sel)}
    IN  IF hits = {} THEN 0 ELSE Min(hits)

RECURSIVE Concat(_)
Concat(ss) == IF ss = <<>> THEN <<>> ELSE Head(ss) \o Concat(Tail(ss))

RECURSIVE Join(_)
Join(ss) == IF ss = <<>> THEN <<>>
            ELSE IF Len(ss) = 1 THEN Head(ss)
            ELSE Head(ss) \o <<" ">> \o Join(Tail(ss))

\* get_text(): the text nodes, concatenated
get_text(texts) == Concat(texts)

\* get_text(separator=' ', strip=True): the stripped text nodes that are not empty, joined by a space
get_text_stripped(texts) ==
    LET stripped == [i \in 1..Len(texts) |-> Strip(texts[i])]
        NonEmpty(t) == t # <<>>
    IN  Join(SelectSeq(stripped, NonEmpty))

\* hasattr(title_elem, 'get_text'): every element select_one returns is a Tag, and a Tag has get_text
HasGetText(e) == TRUE

\* line 115: the text a title selector's element yields
TitleText(e) ==
    IF HasGetText(e)
    THEN Strip(get_text(e.texts))
    ELSE Strip(Get(e.attrs, "content", <<>>))

\* the loop over title_selectors from selector i on, title being the value so far
RECURSIVE TitleLoop(_, _, _)
TitleLoop(doc, i, title) ==
    IF i > Len(title_selectors) THEN title
    ELSE LET k == select_one(doc, title_selectors[i])
         IN  IF k = 0 THEN TitleLoop(doc, i + 1, title)
             ELSE LET t == TitleText(doc.elems[k])
                  IN  IF Truthy(t) THEN t ELSE TitleLoop(doc, i + 1, t)

ResolveTitle(doc) == TitleLoop(doc, 1, None)

MinContainerLen == 200
BodyFallbackLen == 200

\* the loop over content_selectors from selector i on, content being the value so far
RECURSIVE ContentLoop(_, _, _)
ContentLoop(doc, i, content) ==
    IF i > Len(content_selectors) THEN content
    ELSE LET k == select_one(doc, content_selectors[i])
         IN  IF k = 0 THEN ContentLoop(doc, i + 1, content)
             ELSE LET c == get_text_stripped(doc.elems[k].texts)
                  IN  IF Len(c) > MinContainerLen THEN c ELSE ContentLoop(doc, i + 1, c)

\* body.get_text(separator=' ', strip=True): the text nodes of everything inside the body
BodyText(doc) ==
    LET InBody(e) == e.parent \notin {"head", "root"}
        inside == SelectSeq(doc.elems, InBody)
    IN  get_text_stripped(Concat([i \in 1..Len(inside) |-> inside[i].texts]))

\* lines 134-138: the final fallback to the body's text
BodyFallback(doc, content) ==
    IF ~Truthy(content) \/ Len(content) < BodyFallbackLen
    THEN IF doc.hasBody THEN BodyText(doc) ELSE content
    ELSE content

\* lines 119-138: the body text before the cleanup
ResolveBody(doc) == BodyFallback(doc, ContentLoop(doc, 1, None))

Markers ==
    { <<"S", "k", "i", "p", " ", "t", "o", " ", "c", "o", "n", "t", "e", "n", "t">>,
      <<"C", "o", "p", "y", "r", "i", "g", "h", "t">>,
      <<"A", "l", "l", " ", "r", "i", "g", "h", "t", "s", " ", "r", "e", "s", "e", "r", "v", "e", "d">>,
      <<"P", "r", "i", "v", "a", "c", "y", " ", "P", "o", "l", "i", "c", "y">>,
      <<"T", "e", "r", "m", "s", " ", "o", "f", " ", "S", "e", "r", "v", "i", "c", "e">> }

\* with re.IGNORECASE, marker m matches at index i of s
MatchAt(s, i, m) ==
    /\ i + Len(m) - 1 <= Len(s)
    /\ \A k \in 1..Len(m) : Lower(s[i + k - 1]) = Lower(m[k])

\* re.sub(r'(Skip to content|...).*', '', s, flags=re.IGNORECASE): from the leftmost
\* match of a marker, what follows up to the end of the line is removed
RECURSIVE RemoveBoilerplate(_)
RemoveBoilerplate(s) ==
    LET starts == {i \in 1..Len(s) : \E m \in Markers : MatchAt(s, i, m)}
    IN  IF starts = {} THEN s
        ELSE LET i   == Min(starts)
                 nls == {j \in i..Len(s) : s[j] = "\n"}
             IN  IF nls = {} THEN SubSeq(s, 1, i - 1)
                 ELSE SubSeq(s, 1, i - 1) \o RemoveBoilerplate(SubSeq(s, Min(nls), Len(s)))

\* the mutant: the markers are matched without re.IGNORECASE
RECURSIVE RemoveBoilerplateCased(_)
RemoveBoilerplateCased(s) ==
    LET Cased(i, m) == /\ i + Len(m) - 1 <= Len(s)
                       /\ \A k \in 1..Len(m) : s[i + k - 1] = m[k]
        starts == {i \in 1..Len(s) : \E m \in Markers : Cased(i, m)}
    IN  IF starts = {} THEN s
        ELSE LET i   == Min(starts)
                 nls == {j \in i..Len(s) : s[j] = "\n"}
             IN  IF nls = {} THEN SubSeq(s, 1, i - 1)
                 ELSE SubSeq(s, 1, i - 1) \o RemoveBoilerplateCased(SubSeq(s, Min(nls), Len(s)))

CleanupCased(content) ==
    IF Truthy(content)
    THEN Strip(RemoveBoilerplateCased(CollapseWhitespace(content)))
    ELSE content

\* lines 140-144: the cleanup of the resolved body text
Cleanup(content) ==
    IF Truthy(content)
    THEN Strip(RemoveBoilerplate(CollapseWhitespace(content)))
    ELSE content

\* str(status_code)
StatusText(n) == CASE n = 200 -> "200" [] n = 204 -> "204" [] n = 404 -> "404"
                   [] n = 500 -> "500" [] OTHER -> "???"

\* session.get returned and raise_for_status did not raise
Fetched(h) == h.kind = "response" /\ ~(h.status >= 400 /\ h.status < 600)

\* extract_with_fallback(url) when session.get behaves as h: it raises, or returns a response
extract_with_fallback(h) ==
    CASE h.kind = "Timeout" ->
           <<None, None, <<"Request timeout - the website took too long to respond">>>>
      [] h.kind = "ConnectionError" ->
           <<None, None, <<"Connection error - unable to reach the website">>>>
      [] h.kind = "Exception" ->
           <<None, None, <<"Error extracting content: ">> \o h.msg>>
      [] h.kind = "response" ->
           IF ~Fetched(h)
           THEN <<None, None, <<"HTTP error ", StatusText(h.status), " - ">> \o h.reason>>
           ELSE LET soup == Decompose(h.doc)
                IN  <<ResolveTitle(soup), Cleanup(ResolveBody(soup)), None>>

----------------------------------------------------------------------------
(* is_valid_url *)

Letters == {"a", "b", "c", "d"}
SchemeChars == Letters \cup {"1", "+", "-", "."}

\* the index of the first c in s from index from on, 0 when there is none
Find(s, C, from) ==
    LET hits == {i \in from..Len(s) : s[i] \in C}
    IN  IF hits = {} THEN 0 ELSE Min(hits)

\* urlparse(url): its scheme and netloc, and whether it raises ValueError
urlparse(u) ==
    LET colon     == Find(u, {":"}, 1)
        hasScheme == /\ colon > 1
                     /\ u[1] \in Letters
                     /\ \A k \in 1..(colon - 1) : u[k] \in SchemeChars
        scheme    == IF hasScheme THEN SubSeq(u, 1, colon - 1) ELSE <<>>
        rest      == IF hasScheme THEN SubSeq(u, colon + 1, Len(u)) ELSE u
        slashes   == Len(rest) >= 2 /\ rest[1] = "/" /\ rest[2] = "/"
        delim     == Find(rest, {"/", "?", "#"}, 3)
        netloc    == IF ~slashes THEN <<>>
                     ELSE IF delim = 0 THEN SubSeq(rest, 3, Len(rest))
                     ELSE SubSeq(rest, 3, delim - 1)
        chars     == {netloc[i] : i \in 1..Len(netloc)}
    IN  [scheme |-> scheme, netloc |-> netloc,
         raised |-> ("[" \in chars) # ("]" \in chars)]

\* the mutant: any([result.scheme, result.netloc])
is_valid_url_any(u) ==
    LET result == urlparse(u)
    IN  ~result.raised /\ (Truthy(result.scheme) \/ Truthy(result.netloc))

\* all([result.scheme, result.netloc]), False when urlparse raises
is_valid_url(u) ==
    LET result == urlparse(u)
    IN  ~result.raised /\ Truthy(result.scheme) /\ Truthy(result.netloc)

----------------------------------------------------------------------------
(* the bounds of the model *)

\* runs of main() per behaviour
MaxRequests == 2
\* text lengths are taken this far on both sides of each threshold of the code
Slack == 1
\* text nodes per element in the pages that exercise the cleanup
MaxNodes == 2

----------------------------------------------------------------------------
(* extract_content and main *)

MinPrimaryLen == 100
MinSummarizeLen == 100

\* the mutant: any content of Firecrawl's is accepted
AcceptsAnyContent(p) == ~Truthy(p[3]) /\ Truthy(p[2])

\* the mutant: the bound is met from MinPrimaryLen on
AcceptsFromBound(p) ==
    ~Truthy(p[3]) /\ Truthy(p[2]) /\ Len(Strip(p[2])) >= MinPrimaryLen

\* the mutant: what is not an error is accepted
AcceptsNoError(p) == ~Truthy(p[3])

\* line 166: not error and content and len(content.strip()) > 100
Accepts(p) ==
    ~Truthy(p[3]) /\ Truthy(p[2]) /\ Len(Strip(p[2])) > MinPrimaryLen

\* the mutant: a client is made whatever the key
NewClientAlways(firecrawl_api_key) == TRUE

\* line 33: FirecrawlApp(api_key=firecrawl_api_key) if firecrawl_api_key else None
NewClient(firecrawl_api_key) == Truthy(firecrawl_api_key)

\* the mutant: the fallback is tried whatever Firecrawl returned
AfterPrimaryAlwaysFallback(p) == "fallback"

\* lines 166-170: where extract_content goes once extract_with_firecrawl has returned p
AfterPrimary(p) == IF Accepts(p) THEN "extracted" ELSE "fallback"

\* line 312: not content or len(content.strip()) < 100
Insufficient(content) ==
    ~Truthy(content) \/ Len(Strip(content)) < MinSummarizeLen

Urls ==
    { <<"a", "b", ":", "/", "/", "c">>,
      <<"a", "b", ":", "/", "/">>,
      <<"c">>,
      <<"/", "/", "c">>,
      <<"a", "b", ":", "c">>,
      <<>>,
      <<"1", "b", ":", "/", "/", "c">>,
      <<"a", "b", ":", "/", "/", "[", "c">>,
      <<"a", "b", ":", "/", "/", "c", "/", "d">>,
      <<"a", "+", "b", ":", "/", "/", "c", "?", "d">>,
      <<":">> }

Keys == {None, <<>>, <<"k">>}

\* a text of n characters, n >= 2, with whitespace around
Padded(c, n) == <<" ", "\n">> \o Rep(c, n) \o <<"\n", "\t">>

\* lengths around a threshold
Around(n) == (n - Slack)..(n + Slack)

\* what scrape_url does: it raises, or returns a dict
ScrapeResults ==
    { [raised |-> TRUE, msg |-> <<"timed out">>],
      [raised |-> FALSE, dict |-> EmptyDict],
      [raised |-> FALSE, dict |-> [success |-> FALSE, error |-> <<"blocked">>]],
      [raised |-> FALSE, dict |-> [success |-> TRUE]],
      [raised |-> FALSE, dict |-> [success |-> TRUE,
                                   data |-> [markdown |-> <<" ", "\n", "\n", "\n">>]]],
      [raised |-> FALSE, dict |-> [success |-> TRUE,
                                   data |-> [markdown |-> Rep("a", 60) \o Rep("\n", 60) \o <<"b">>,
                                             title |-> <<>>,
                                             metadata |-> [title |-> <<"M">>]]]],
      [raised |-> FALSE, dict |-> [success |-> TRUE,
                                   data |-> [markdown |-> None,
                                             content |-> Rep("h", 150),
                                             title |-> <<"T">>]]] }
    \cup { [raised |-> FALSE, dict |-> [success |-> TRUE,
                                        data |-> [markdown |-> Padded("a", n),
                                                  metadata |-> [title |-> <<"M">>]]]]
           : n \in Around(MinPrimaryLen) }

----------------------------------------------------------------------------
(* the pages *)

Elem(tag, classes, attrs, texts, parent) ==
    [tag |-> tag, classes |-> classes, attrs |-> attrs, texts |-> texts, parent |-> parent]

\* text nodes whose get_text(separator=' ', strip=True) has n characters, n >= 3
Filler(c, n) == << <<"\n", " ">> \o Rep(c, n - 2) \o <<" ">>, <<" ", "\t">>, <<"b">> >>

Opt(present, e) == IF present THEN <<e>> ELSE <<>>

Where(hasBody) == IF hasBody THEN "body" ELSE "root"

\* pages for the body resolution: an article, a main, a div.post-body (0: absent, else
\* the length of its text) and a paragraph
BodyDoc(a, m, pb, x, hasBody) ==
    [hasBody |-> hasBody,
     elems |-> << Elem("title", {}, EmptyDict, << <<"T">> >>, "head") >>
               \o Opt(pb > 0, Elem("div", {"post-body", "wide"}, EmptyDict, Filler("p", pb), Where(hasBody)))
               \o Opt(m > 0, Elem("main", {}, EmptyDict, Filler("m", m), Where(hasBody)))
               \o Opt(a > 0, Elem("article", {}, EmptyDict, Filler("a", a), Where(hasBody)))
               \o << Elem("p", {}, EmptyDict, Filler("x", x), Where(hasBody)) >>]

BodyDocs ==
    { BodyDoc(a, m, pb, x, hb) :
        a \in {0, 50} \cup Around(MinContainerLen),
        m \in {0, 150, 250},
        pb \in {0} \cup Around(BodyFallbackLen),
        x \in {10, 300},
        hb \in BOOLEAN }

\* pages for the title resolution
TitleDoc(t, h, og, hl) ==
    [hasBody |-> TRUE,
     elems |-> Opt(og = "content", Elem("meta", {}, [property |-> "og:title", content |-> <<" ", "O", "G">>], <<>>, "head"))
               \o Opt(og = "no_content", Elem("meta", {}, [property |-> "og:title"], <<>>, "head"))
               \o Opt(t = "blank", Elem("title", {}, EmptyDict, << <<" ", "\n">> >>, "head"))
               \o Opt(t = "text", Elem("title", {}, EmptyDict, << <<"\n", "T", "i", " ">> >>, "head"))
               \o Opt(hl = "text", Elem("div", {"headline"}, EmptyDict, << <<"L">> >>, "body"))
               \o Opt(h = "blank", Elem("h1", {}, EmptyDict, << <<" ">>, <<>> >>, "body"))
               \o Opt(h = "text", Elem("h1", {}, EmptyDict, << <<"H">>, <<" ">>, <<"1", " ">> >>, "body"))
               \o Opt(h = "in_header", Elem("h1", {}, EmptyDict, << <<"H">> >>, "header"))
               \o << Elem("p", {}, EmptyDict, << <<"x", "y">> >>, "body") >>]

TitleDocs ==
    { TitleDoc(t, h, og, hl) :
        t \in {"none", "blank", "text"},
        h \in {"none", "blank", "text", "in_header"},
        og \in {"none", "content", "no_content"},
        hl \in {"none", "text"} }

\* text nodes for the cleanup
Pieces ==
    { <<"A">>,
      <<"A", " ", "B">>,
      <<"c", "o", "p", "y", "r", "i", "g", "h", "t", " ", "C">>,
      <<" ", " ", "C", "O", "P", "Y", "R", "I", "G", "H", "T">>,
      <<"C", "o", "p", "y", " ", "r", "i", "g", "h", "t">>,
      <<"x", " ", "P", "r", "i", "v", "a", "c", "y", "\n", " ", "P", "o", "l", "i", "c", "y", " ", "y">>,
      <<"t", "e", "r", "m", "s", " ", "o", "f", " ", " ", "s", "e", "r", "v", "i", "c", "e">>,
      <<"a", "l", "l", " ", "R", "i", "g", "h", "t", "s", " ", "r", "e", "s", "e", "r", "v", "e", "d", ".">>,
      <<"S", "k", "i", "p", " ", "t", "o", " ", "c", "o", "n", "t", "e", "n", "t">>,
      <<" ", "B", " ">>,
      <<"c", "o", "p", "y", "r", "i", "g", "h">>,
      <<"s", "k", "i", "p", "	", "t", "o">> }

RECURSIVE SeqsUpTo(_, _)
SeqsUpTo(S, n) ==
    IF n = 0 THEN {<<>>}
    ELSE LET shorter == SeqsUpTo(S, n - 1)
         IN  shorter \cup {Append(q, x) : q \in shorter, x \in S}

CleanupDocs ==
    { [hasBody |-> TRUE, elems |-> << Elem("p", {}, EmptyDict, texts, "body") >>]
      : texts \in SeqsUpTo(Pieces, MaxNodes) }

\* pages for main(): texts around the bound of main's check, short, empty and absent
\* texts, and texts a marker cuts
MainDocs ==
    { [hasBody |-> TRUE, elems |-> << Elem("title", {}, EmptyDict, << <<"H">> >>, "head"),
                                     Elem("p", {}, EmptyDict, Filler("x", n), "body") >>]
      : n \in Around(MinSummarizeLen) }
    \cup
    { [hasBody |-> TRUE, elems |-> <<>>],
      [hasBody |-> FALSE, elems |-> <<>>],
      [hasBody |-> FALSE, elems |-> << Elem("p", {}, EmptyDict, Filler("x", 300), "root") >>],
      [hasBody |-> TRUE, elems |-> << Elem("p", {}, EmptyDict, << <<" ">> >>, "body") >>],
      [hasBody |-> TRUE, elems |-> << Elem("p", {}, EmptyDict,
                                           << <<"C", "o", "p", "y", "r", "i", "g", "h", "t">>, Rep("x", 150) >>, "body") >>],
      [hasBody |-> TRUE, elems |-> << Elem("title", {}, EmptyDict, << <<"T">> >>, "head"),
                                     Elem("article", {}, EmptyDict,
                                           << Rep("a", 250), <<"c", "o", "p", "y", "r", "i", "g", "h", "t">>, Rep("x", 50) >>, "body") >>] }

HttpErrors ==
    { [kind |-> "Timeout"], [kind |-> "ConnectionError"],
      [kind |-> "Exception", msg |-> <<"bad encoding">>] }
    \cup { [kind |-> "response", status |-> n, reason |-> <<"Not Found">>, doc |-> [hasBody |-> FALSE, elems |-> <<>>]]
           : n \in {404, 500} }

Response(doc) == [kind |-> "response", status |-> 200, reason |-> <<"OK">>, doc |-> doc]

\* what session.get does in main()
HttpOutcomes == HttpErrors \cup {Response(d) : d \in MainDocs}

\* what session.get does when extract_with_fallback is studied alone
AllHttpOutcomes ==
    HttpErrors \cup {Response(d) : d \in MainDocs \cup BodyDocs \cup TitleDocs \cup CleanupDocs}

\* contents for summarize_content studied alone: lengths around the cap, with a
\* mark at one place so that the contents differ in what they hold
SumContents ==
    { [i \in 1..n |-> IF i = k THEN "#" ELSE "x"] :
        n \in {0, 1, 20000} \cup Around(max_content_length),
        k \in {0, 1} \cup Around(max_content_length) }

----------------------------------------------------------------------------
(* main(): one run per request; extract_content in steps, so that the calls of the
   two tiers and their returns are states *)

Idle == /\ primary = NotCalled /\ fallback = NotCalled /\ extracted = NotCalled
        /\ summarized = NotCalled /\ method_used = "unknown"

Init ==
    /\ env \in [groq_api_key : Keys, firecrawl_api_key : Keys]
    /\ firecrawl_client = "unset"
    /\ pc = "start"
    /\ url = <<>>
    /\ requests = 0
    /\ Idle
    /\ outcome = "none"
    /\ trace = <<>>
    /\ arg = None
    /\ res = None

Fresh == /\ primary' = NotCalled /\ fallback' = NotCalled /\ extracted' = NotCalled
         /\ summarized' = NotCalled /\ method_used' = "unknown"

\* lines 227-294: main() up to the validation of the URL
MainStart ==
    /\ pc \in {"start", "done"}
    /\ requests < MaxRequests
    /\ requests' = requests + 1
    /\ Fresh
    /\ UNCHANGED <<env, arg, res>>
    /\ \E u \in Urls, summarize_button \in BOOLEAN :
         /\ url' = u
         /\ IF ~Truthy(env.groq_api_key)
            THEN /\ outcome' = "no_groq_key" /\ pc' = "done" /\ trace' = <<>>
                 /\ UNCHANGED firecrawl_client
            ELSE /\ firecrawl_client' = (IF NewClient(env.firecrawl_api_key) THEN "client" ELSE "none")
                 /\ IF summarize_button /\ Truthy(u)
                    THEN IF ~is_valid_url(u)
                         THEN /\ outcome' = "invalid_url" /\ pc' = "done"
                              /\ trace' = <<"validate">>
                         ELSE /\ outcome' = "none" /\ pc' = "extract"
                              /\ trace' = <<"validate">>
                    ELSE /\ outcome' = (IF summarize_button THEN "no_url" ELSE "waiting")
                         /\ pc' = "done" /\ trace' = <<>>

\* lines 160-165: extract_content calls extract_with_firecrawl
CallPrimary ==
    /\ pc = "extract"
    /\ firecrawl_client = "client"
    /\ method_used' = "Firecrawl"
    /\ pc' = "in_primary"
    /\ trace' = Append(trace, "primary_call")
    /\ UNCHANGED <<env, firecrawl_client, url, requests, primary, fallback, extracted,
                   summarized, outcome, arg, res>>

\* line 163: no client
SkipPrimary ==
    /\ pc = "extract"
    /\ firecrawl_client = "none"
    /\ pc' = "fallback"
    /\ UNCHANGED <<env, firecrawl_client, url, requests, method_used, primary, fallback,
                   extracted, summarized, outcome, trace, arg, res>>

\* lines 165-167: extract_with_firecrawl returns; its result is returned or dropped
PrimaryReturns ==
    /\ pc = "in_primary"
    /\ \E r \in ScrapeResults :
         LET p == extract_with_firecrawl(r)
         IN  /\ primary' = p
             /\ pc' = AfterPrimary(p)
             /\ IF AfterPrimary(p) = "extracted"
                THEN /\ extracted' = <<p[1], p[2], None, method_used>>
                     /\ trace' = trace \o <<"primary_ret", "extract_ret">>
                ELSE /\ extracted' = extracted
                     /\ trace' = Append(trace, "primary_ret")
    /\ UNCHANGED <<env, firecrawl_client, url, requests, method_used, fallback,
                   summarized, outcome, arg, res>>

\* lines 170-171: extract_content calls extract_with_fallback
CallFallback ==
    /\ pc = "fallback"
    /\ method_used' = "Basic Scraping"
    /\ pc' = "in_fallback"
    /\ trace' = Append(trace, "fallback_call")
    /\ UNCHANGED <<env, firecrawl_client, url, requests, primary, fallback, extracted,
                   summarized, outcome, arg, res>>

\* lines 171-172: extract_with_fallback returns and its result is returned
FallbackReturns ==
    /\ pc = "in_fallback"
    /\ \E h \in HttpOutcomes :
         LET f == extract_with_fallback(h)
         IN  /\ fallback' = f
             /\ extracted' = <<f[1], f[2], f[3], method_used>>
    /\ pc' = "extracted"
    /\ trace' = trace \o <<"fallback_ret", "extract_ret">>
    /\ UNCHANGED <<env, firecrawl_client, url, requests, method_used, primary,
                   summarized, outcome, arg, res>>

\* lines 304-316: main() looks at what extract_content returned
MainAfterExtract ==
    /\ pc = "extracted"
    /\ IF Truthy(extracted[3])
       THEN outcome' = "extraction_failed" /\ pc' = "done"
       ELSE IF Insufficient(extracted[2])
       THEN outcome' = "insufficient_content" /\ pc' = "done"
       ELSE outcome' = "none" /\ pc' = "summarize"
    /\ UNCHANGED <<env, firecrawl_client, url, requests, method_used, primary, fallback,
                   extracted, summarized, trace, arg, res>>

\* lines 322-340: main() calls summarize_content and shows the summary or the error
MainSummarize ==
    /\ pc = "summarize"
    /\ \E g \in GroqOutcomes, summary_length \in SummaryLengths :
         LET r == summarize_content(Or(extracted[1], <<"Untitled Article">>),
                                    extracted[2], summary_length, g)
         IN  /\ summarized' = r
             /\ outcome' = IF Truthy(r.error) THEN "summarization_failed" ELSE "summary"
    /\ pc' = "done"
    /\ trace' = Append(trace, "summarize")
    /\ UNCHANGED <<env, firecrawl_client, url, requests, method_used, primary, fallback,
                   extracted, arg, res>>

Next ==
    \/ MainStart
    \/ CallPrimary
    \/ SkipPrimary
    \/ PrimaryReturns
    \/ CallFallback
    \/ FallbackReturns
    \/ MainAfterExtract
    \/ MainSummarize

Spec == Init /\ [][Next]_vars

----------------------------------------------------------------------------
(* summarize_content studied alone *)

InitSummarize ==
    /\ env = [groq_api_key |-> <<"k">>, firecrawl_api_key |-> None]
    /\ firecrawl_client = "unset"
    /\ pc = "summarize_content"
    /\ url = <<>>
    /\ requests = 0
    /\ Idle
    /\ outcome = "none"
    /\ trace = <<>>
    /\ arg \in [title : {None, <<"T">>}, content : SumContents,
                summary_length : {"short", "huge"}]
    /\ res = None

ApplySummarize ==
    /\ pc = "summarize_content"
    /\ \E g \in GroqOutcomes :
         res' = summarize_content(arg.title, arg.content, arg.summary_length, g)
    /\ pc' = "returned"
    /\ UNCHANGED <<env, firecrawl_client, url, requests, method_used, primary, fallback,
                   extracted, summarized, outcome, trace, arg>>

SpecSummarize == InitSummarize /\ [][ApplySummarize]_vars

----------------------------------------------------------------------------
(* extract_with_fallback studied alone *)

InitFallback ==
    /\ env = [groq_api_key |-> <<"k">>, firecrawl_api_key |-> None]
    /\ firecrawl_client = "unset"
    /\ pc = "extract_with_fallback"
    /\ url = <<>>
    /\ requests = 0
    /\ Idle
    /\ outcome = "none"
    /\ trace = <<>>
    /\ arg \in AllHttpOutcomes
    /\ res = None

\* the call; res keeps the function's local content as it is before the cleanup
\* (line 139) and what the function returned
ApplyFallback ==
    /\ pc = "extract_with_fallback"
    /\ res' = [content  |-> IF Fetched(arg) THEN ResolveBody(Decompose(arg.doc)) ELSE None,
               returned |-> extract_with_fallback(arg)]
    /\ pc' = "returned"
    /\ UNCHANGED <<env, firecrawl_client, url, requests, method_used, primary, fallback,
                   extracted, summarized, outcome, trace, arg>>

SpecFallback == InitFallback /\ [][ApplyFallback]_vars

----------------------------------------------------------------------------
(* what the properties speak of *)

Count(q, x) == Cardinality({i \in 1..Len(q) : q[i] = x})

IsPrefix(p, q) == Len(p) <= Len(q) /\ SubSeq(q, 1, Len(p)) = p

Returned == extracted # NotCalled

\* Firecrawl was configured and called, returned no error, and content of more than
\* 100 characters after trimming
PrimaryAcceptable ==
    /\ firecrawl_client = "client"
    /\ primary # NotCalled
    /\ primary[3] = None
    /\ primary[2] # None
    /\ Len(Strip(primary[2])) > 100

TierEvents ==
    LET OfTier(e) == e \in {"primary_call", "primary_ret", "fallback_call", "fallback_ret"}
    IN  SelectSeq(trace, OfTier)

\* C1. What extract_content returns is Firecrawl's result, with method_used
\* Firecrawl, exactly when a client is configured, Firecrawl returned no error and
\* its content has more than 100 characters after trimming; in every other case
\* method_used is Basic Scraping and title, content and error are those the
\* fallback returned.
C1_PrimaryAcceptedIffSufficient ==
    Returned =>
        /\ (extracted[4] = "Firecrawl") <=> PrimaryAcceptable
        /\ PrimaryAcceptable => <<extracted[1], extracted[2], extracted[3]>> = primary
        /\ ~PrimaryAcceptable =>
              /\ extracted[4] = "Basic Scraping"
              /\ fallback # NotCalled
              /\ <<extracted[1], extracted[2], extracted[3]>> = fallback

C1_Witness ==
    /\ Returned
    /\ primary # NotCalled
    /\ primary[3] = None
    /\ Len(primary[2]) = 100
    /\ extracted[4] = "Basic Scraping"
    /\ Truthy(extracted[2])

\* C2. With no Firecrawl key in the environment, extract_with_firecrawl is never
\* called, and every return of extract_content follows one call of the fallback
\* and has method_used Basic Scraping.
C2_NoKeyNoPrimary ==
    ~Truthy(env.firecrawl_api_key) =>
        /\ Count(trace, "primary_call") = 0
        /\ primary = NotCalled
        /\ Returned => /\ Count(trace, "fallback_call") = 1
                       /\ extracted[4] = "Basic Scraping"

C2_Witness ==
    /\ ~Truthy(env.firecrawl_api_key)
    /\ requests = 2
    /\ Returned
    /\ extracted[4] = "Basic Scraping"

\* C3. In one call of extract_content each tier is called at most once, the
\* calls do not overlap, the fallback is called only after Firecrawl (if called)
\* has returned and its result was not accepted, and never after an accepted result.
C3_OneAttemptPerTier ==
    /\ \/ IsPrefix(TierEvents, <<"primary_call", "primary_ret", "fallback_call", "fallback_ret">>)
       \/ IsPrefix(TierEvents, <<"fallback_call", "fallback_ret">>)
    /\ Count(trace, "fallback_call") > 0 /\ Count(trace, "primary_call") > 0
          => primary # NotCalled /\ ~PrimaryAcceptable
    /\ PrimaryAcceptable => Count(trace, "fallback_call") = 0

C3_Witness ==
    /\ TierEvents = <<"primary_call", "primary_ret", "fallback_call", "fallback_ret">>
    /\ Truthy(primary[3])
    /\ Truthy(fallback[3])
    /\ pc = "done"

\* C4 (as claimed). On every return of extract_content exactly one of content
\* and error is non-empty.
C4_ExactlyOneOfContentAndError ==
    Returned => (Truthy(extracted[2]) # Truthy(extracted[3]))

\* C4 (amended). On every return of extract_content content and error are never
\* both non-empty, an error comes with no content at all, and both are empty only
\* when the result is the fallback's, for a page it fetched without error whose
\* text is empty or absent.
C4_AtMostOneOfContentAndError ==
    Returned =>
        /\ ~(Truthy(extracted[2]) /\ Truthy(extracted[3]))
        /\ Truthy(extracted[3]) => extracted[2] = None
        /\ (~Truthy(extracted[2]) /\ ~Truthy(extracted[3])) =>
              /\ extracted[4] = "Basic Scraping"
              /\ fallback # NotCalled
              /\ fallback[3] = None
              /\ fallback[2] \in {None, <<>>}

C4_Witness ==
    /\ Returned
    /\ ~Truthy(extracted[2])
    /\ ~Truthy(extracted[3])

\* C5 (as claimed). A request that ends with insufficient content has run both
\* tiers.
C5_InsufficientImpliesBothTiers ==
    outcome = "insufficient_content" =>
        /\ Count(trace, "primary_call") = 1
        /\ Count(trace, "fallback_call") = 1

\* C5 (amended). A request that ends with insufficient content has run the
\* fallback, and has run Firecrawl before it exactly when a client is configured.
C5_InsufficientImpliesFallbackRan ==
    outcome = "insufficient_content" =>
        /\ Count(trace, "fallback_call") = 1
        /\ Count(trace, "fallback_ret") = 1
        /\ (Count(trace, "primary_call") = 1) <=> (firecrawl_client = "client")
        /\ extracted[4] = "Basic Scraping"

C5_Witness ==
    /\ outcome = "insufficient_content"
    /\ firecrawl_client = "client"
    /\ Truthy(extracted[2])

\* the URL has a scheme and a host
WellFormed(u) ==
    LET parts == urlparse(u)
    IN  ~parts.raised /\ parts.scheme # <<>> /\ parts.netloc # <<>>

\* C6. The stages run in the order validation, extraction, summarization, and a
\* failed stage ends the request: no tier is called for an invalid URL; summarize_content
\* is called at most once, and only after extract_content returned no error and
\* content of at least 100 characters after trimming.
C6_StagesInOrder ==
    /\ trace # <<>> => trace[1] = "validate" /\ Count(trace, "validate") = 1
    /\ ~WellFormed(url) => Count(trace, "primary_call") + Count(trace, "fallback_call")
                             + Count(trace, "summarize") = 0
    /\ Count(trace, "summarize") <= 1
    /\ Count(trace, "summarize") = 1 =>
          /\ trace[Len(trace)] = "summarize"
          /\ trace[Len(trace) - 1] = "extract_ret"
    /\ (pc = "summarize" \/ Count(trace, "summarize") = 1) =>
          /\ Returned
          /\ ~Truthy(extracted[3])
          /\ extracted[2] # None
          /\ Len(Strip(extracted[2])) >= 100
    /\ outcome \in {"invalid_url", "extraction_failed", "insufficient_content"} =>
          pc = "done" /\ Count(trace, "summarize") = 0

C6_Witness ==
    /\ outcome = "summary"
    /\ Len(Strip(extracted[2])) = 100
    /\ trace[Len(trace)] = "summarize"

\* C7. The content summarize_content puts in the prompt is, for a content of
\* more than 15000 characters, its first 15000 characters followed by "..." (15003
\* characters), and the content itself otherwise, 15000 characters included.
C7_TruncationAtCap ==
    pc = "returned" =>
        LET c   == arg.content
            out == res.prompt.content
        IN  /\ Len(c) > 15000 =>
                  /\ Len(out) = 15003
                  /\ \A i \in 1..15000 : out[i] = c[i]
                  /\ \A i \in 15001..15003 : out[i] = "."
            /\ Len(c) <= 15000 => out = c
            /\ Len(out) <= 15003

C7_Witness ==
    /\ pc = "returned"
    /\ Len(arg.content) = 20000
    /\ Len(res.prompt.content) = 15003

\* the text of the element a content selector selects, None when it selects none
ContainerText(doc, sel) ==
    LET k == select_one(doc, sel)
    IN  IF k = 0 THEN None ELSE get_text_stripped(doc.elems[k].texts)

\* C8 (as claimed). Before the cleanup, the content is the text of the first
\* container selector whose text has more than 200 characters, and the text of the
\* body element when no container selector has such a text.
C8_BodyResolution ==
    (pc = "returned" /\ Fetched(arg) /\ arg.doc.hasBody) =>
        LET soup == Decompose(arg.doc)
            long == {i \in 1..Len(content_selectors) :
                        /\ ContainerText(soup, content_selectors[i]) # None
                        /\ Len(ContainerText(soup, content_selectors[i])) > 200}
        IN  res.content = IF long # {}
                          THEN ContainerText(soup, content_selectors[Min(long)])
                          ELSE BodyText(soup)

\* the text the claim gives a title selector: the content attribute for the
\* og:title meta, the element's text for the others; None when it selects none
ClaimedTitleText(doc, sel) ==
    LET k == select_one(doc, sel)
    IN  IF k = 0 THEN None
        ELSE IF sel = Attr("property", "og:title")
        THEN Strip(Get(doc.elems[k].attrs, "content", <<>>))
        ELSE Strip(get_text(doc.elems[k].texts))

\* C9 (as claimed). The title is the text of the first title selector, in order,
\* that yields a non-empty text, the text of the og:title meta being its content
\* attribute.
C9_TitleResolution ==
    (pc = "returned" /\ Fetched(arg)) =>
        LET soup == Decompose(arg.doc)
            some == {i \in 1..Len(title_selectors) :
                        Truthy(ClaimedTitleText(soup, title_selectors[i]))}
        IN  some # {} =>
               res.returned[1] = ClaimedTitleText(soup, title_selectors[Min(some)])

MarkerPhrases ==
    { <<"s", "k", "i", "p", " ", "t", "o", " ", "c", "o", "n", "t", "e", "n", "t">>,
      <<"c", "o", "p", "y", "r", "i", "g", "h", "t">>,
      <<"a", "l", "l", " ", "r", "i", "g", "h", "t", "s", " ", "r", "e", "s", "e", "r", "v", "e", "d">>,
      <<"p", "r", "i", "v", "a", "c", "y", " ", "p", "o", "l", "i", "c", "y">>,
      <<"t", "e", "r", "m", "s", " ", "o", "f", " ", "s", "e", "r", "v", "i", "c", "e">> }

LowerSeq(s) == [i \in 1..Len(s) |-> Lower(s[i])]

\* the first index of s at which a marker phrase occurs in any letter case, 0 when none does
FirstMarker(s) ==
    LET low  == LowerSeq(s)
        occs == {i \in 1..Len(s) : \E ph \in MarkerPhrases :
                    /\ i + Len(ph) - 1 <= Len(s)
                    /\ SubSeq(low, i, i + Len(ph) - 1) = ph}
    IN  IF occs = {} THEN 0 ELSE Min(occs)

\* C10. The cleanup returns the whitespace-collapsed text cut at the first
\* occurrence of a marker phrase in any letter case, then trimmed: a prefix of the
\* collapsed text that holds no marker phrase, the whole collapsed text when no
\* marker occurs; "A B copyright C" gives "A B".
C10_CleanupCutsAtFirstMarker ==
    (pc = "returned" /\ Fetched(arg) /\ Truthy(res.content)) =>
        LET c   == CollapseWhitespace(res.content)
            out == res.returned[2]
            k   == FirstMarker(c)
        IN  /\ IsPrefix(out, c)
            /\ FirstMarker(out) = 0
            /\ k = 0 => out = Strip(c)
            /\ k > 0 => out = Strip(SubSeq(c, 1, k - 1))
            /\ res.content = <<"A", " ", "B", " ", "c", "o", "p", "y", "r", "i", "g", "h", "t", " ", "C">>
                  => out = <<"A", " ", "B">>

C10_Witness ==
    /\ pc = "returned"
    /\ Fetched(arg)
    /\ res.content = <<"A", " ", "B", " ", "c", "o", "p", "y", "r", "i", "g", "h", "t", " ", "C">>
    /\ res.returned[2] = <<"A", " ", "B">>

====
